---- MODULE Spec2Model ----
(***************************************************************************)
(* Model of disk_method.py: the Dash callback update_output, which parses  *)
(* the text of f(x) with sympy, turns it into a callable, integrates       *)
(* pi*f(x)^2 over [a, b] with scipy's quad and samples f for three plots.  *)
(*                                                                         *)
(* Numbers are exact rationals <<n, d>> (d > 0, lowest terms).  A volume   *)
(* is kept in units of pi.  An expression text is a sequence of lexemes.   *)
(* An optional value (a Dash property that may be None) is a sequence of   *)
(* length at most one: None is << >>, the value v is <<v>>.                *)
(***************************************************************************)
EXTENDS Integers, Sequences, FiniteSets

\* ------------------------------------------------------------- bounds ----

\* Longest expression text, in lexemes.
MaxLen == 3
\* The bounds a and b range over -MaxAbs..MaxAbs (and None).
MaxAbs == 2
\* Clicks of the Calculate button in one session.
MaxClicks == 1

\* ---------------------------------------------------- program constants ---

\* np.linspace(a, b, 100) and np.linspace(0, 2*pi, 100)
NumSamples == 100
\* num_frames = 50
num_frames == 50

\* ----------------------------------------------------- optional values ----

None == << >>

Some(v) == <<v>>

IsNone(o) == o = << >>

Val(o) == o[1]

\* ------------------------------------------------------------ rationals ---

Abs(n) == IF n < 0 THEN -n ELSE n

RECURSIVE Gcd(_, _)
Gcd(m, n) == IF n = 0 THEN m ELSE Gcd(n, m % n)

QNorm(n, d) ==
    LET g == Gcd(Abs(n), Abs(d))
        s == IF d < 0 THEN -1 ELSE 1
    IN  <<(s * n) \div g, (s * d) \div g>>

Q(n) == <<n, 1>>

QZero == <<0, 1>>

QAdd(p, q) == QNorm(p[1] * q[2] + q[1] * p[2], p[2] * q[2])

QNeg(p) == <<-p[1], p[2]>>

QSub(p, q) == QAdd(p, QNeg(q))

QMul(p, q) == QNorm(p[1] * q[1], p[2] * q[2])

\* 1/p, for p # 0
QInv(p) == QNorm(p[2], p[1])

QLess(p, q) == p[1] * q[2] < q[1] * p[2]

RECURSIVE QPowNat(_, _)
QPowNat(p, k) == IF k = 0 THEN Q(1) ELSE QMul(p, QPowNat(p, k - 1))

\* p^k for an integer k; p # 0 when k < 0
QPow(p, k) == IF k >= 0 THEN QPowNat(p, k) ELSE QPowNat(QInv(p), -k)

\* ------------------------------------------------- sympy expressions -----
\* What sympy's automatic evaluation keeps of a sum of products of numbers,
\* x and y: like terms collected, powers of one base merged, numeric factors
\* multiplied into one Rational.  An expression is the set of its terms
\* c * x^ex * y^ey with c # 0; the empty set is the number 0.

Term(c, i, j) == [c |-> c, ex |-> i, ey |-> j]

Exps(p) == {<<t.ex, t.ey>> : t \in p}

Coef(p, i, j) ==
    IF <<i, j>> \in Exps(p)
    THEN (CHOOSE t \in p : t.ex = i /\ t.ey = j).c
    ELSE QZero

PBuild(E, C(_, _)) ==
    {Term(C(e[1], e[2]), e[1], e[2]) : e \in {e \in E : C(e[1], e[2]) # QZero}}

RECURSIVE SumProducts(_)
SumProducts(S) ==
    IF S = {} THEN QZero
    ELSE LET tu == CHOOSE tu \in S : TRUE
         IN  QAdd(QMul(tu[1].c, tu[2].c), SumProducts(S \ {tu}))

\* Add.flatten: like terms are collected
Add(p, q) == PBuild(Exps(p) \cup Exps(q), LAMBDA i, j : QAdd(Coef(p, i, j), Coef(q, i, j)))

\* Mul.flatten: coefficients multiply, exponents of one base add
Mul(p, q) ==
    PBuild({<<t.ex + u.ex, t.ey + u.ey>> : t \in p, u \in q},
           LAMBDA i, j : SumProducts({tu \in p \X q :
                             tu[1].ex + tu[2].ex = i /\ tu[1].ey + tu[2].ey = j}))

Neg(p) == {Term(QNeg(t.c), t.ex, t.ey) : t \in p}

\* Pow(m, -1) of a single term m
Inv(m) == {Term(QInv(t.c), -t.ex, -t.ey) : t \in m}

Integer(n) == IF n = 0 THEN {} ELSE {Term(Q(n), 0, 0)}

SymbolX == {Term(Q(1), 1, 0)}

SymbolY == {Term(Q(1), 0, 1)}

free_symbols(p) ==
    {s \in {"x", "y"} : \E t \in p : IF s = "x" THEN t.ex # 0 ELSE t.ey # 0}

\* ----------------------------------------------------------- sympify -----
\* parse_expr on the lexemes of the text: Python's expression grammar,
\*     arith_expr: term (('+'|'-') term)*
\*     term:       factor (('*'|'/') factor)*
\*     factor:     ('+'|'-') factor | atom
\*     atom:       NUMBER | NAME
\* evaluated in sympy's namespace (auto_number, auto_symbol).  A parse
\* result is [ok, val, rest]; rest is the input not yet consumed.

Lexemes == {"2", "x", "y", "+", "-", "*", "/"}

Fail == [ok |-> FALSE, val |-> {}, rest |-> << >>]

Ok(v, rest) == [ok |-> TRUE, val |-> v, rest |-> rest]

Atom(tok) ==
    CASE tok = "2" -> Integer(2)
      [] tok = "x" -> SymbolX
      [] tok = "y" -> SymbolY

\* factor: ('+'|'-') factor | atom
RECURSIVE ParseFactor(_)
Signed(sign, f) ==
    IF f.ok /\ sign = "-" THEN Ok(Neg(f.val), f.rest) ELSE f

ParseFactor(ts) ==
    IF ts = << >> THEN Fail
    ELSE IF Head(ts) \in {"+", "-"} THEN Signed(Head(ts), ParseFactor(Tail(ts)))
    ELSE IF Head(ts) \in {"2", "x", "y"} THEN Ok(Atom(Head(ts)), Tail(ts))
    ELSE Fail

\* term: factor (('*'|'/') factor)*, left to right
RECURSIVE ParseTermRest(_, _)
TermStep(acc, op, f) ==
    IF ~f.ok THEN Fail
    ELSE ParseTermRest(Mul(acc, IF op = "*" THEN f.val ELSE Inv(f.val)), f.rest)

ParseTermRest(acc, ts) ==
    IF ts # << >> /\ Head(ts) \in {"*", "/"}
    THEN TermStep(acc, Head(ts), ParseFactor(Tail(ts)))
    ELSE Ok(acc, ts)

TermFrom(f) == IF ~f.ok THEN Fail ELSE ParseTermRest(f.val, f.rest)

ParseTerm(ts) == TermFrom(ParseFactor(ts))

\* arith_expr: term (('+'|'-') term)*, left to right
RECURSIVE ParseArithRest(_, _)
ArithStep(acc, op, t) ==
    IF ~t.ok THEN Fail
    ELSE ParseArithRest(Add(acc, IF op = "+" THEN t.val ELSE Neg(t.val)), t.rest)

ParseArithRest(acc, ts) ==
    IF ts # << >> /\ Head(ts) \in {"+", "-"}
    THEN ArithStep(acc, Head(ts), ParseTerm(Tail(ts)))
    ELSE Ok(acc, ts)

ArithFrom(t) == IF ~t.ok THEN Fail ELSE ParseArithRest(t.val, t.rest)

\* The whole text must be one expression
Whole(e) == IF e.ok /\ e.rest = << >> THEN e ELSE Fail

parse_expr(ts) == Whole(ArithFrom(ParseTerm(ts)))

\* sp.sympify(func_str): None comes back as None; a text that does not parse
\* raises SympifyError.  The result is [exc, expr]: exc is "" on a return.
Sympified(e) ==
    IF e.ok THEN [exc |-> "", expr |-> Some(e.val)]
    ELSE [exc |-> "SympifyError", expr |-> None]

sympify(func_str) ==
    IF IsNone(func_str) THEN [exc |-> "", expr |-> None]
    ELSE Sympified(parse_expr(Val(func_str)))

\* ---------------------------------------------------------- lambdify -----
\* sp.lambdify(x, func, 'numpy') prints the expression as the body of a
\* Python function of x; nothing is checked when the function is made.
lambdify(expr) == [body |-> expr]

has_pole(e) == \E t \in e : t.ex < 0

RECURSIVE SumTermsAt(_, _)
SumTermsAt(e, v) ==
    IF e = {} THEN QZero
    ELSE LET t == CHOOSE t \in e : TRUE
         IN  QAdd(QMul(t.c, QPow(v, t.ex)), SumTermsAt(e \ {t}, v))

\* func_numeric(v) for one Python float v, as quad calls it.  The body
\* "None" returns None; a name other than x is looked up when the body runs
\* and is not defined; a negative power of the float 0.0 raises.
\* The result is [exc, val]; val is None or the value.
Call(func, v) ==
    IF IsNone(func.body) THEN [exc |-> "", val |-> None]
    ELSE LET e == Val(func.body)
         IN  IF "y" \in free_symbols(e) THEN [exc |-> "NameError", val |-> None]
             ELSE IF has_pole(e) /\ v = QZero
                  THEN [exc |-> "ZeroDivisionError", val |-> None]
                  ELSE [exc |-> "", val |-> Some(SumTermsAt(e, v))]

\* ---------------------------------------------------------------- quad ---
\* A result of quad, and of volume_disk_method: exc is the exception raised
\* ("" on a return); kind is "number" for the value pi * (rat + log * L),
\* L = ln|hi| - ln|lo|, and "divergent" for the last estimate of an
\* integral that does not converge (a float with no meaning, returned with
\* an IntegrationWarning only).

Raised(exc) == [exc |-> exc, kind |-> "none", rat |-> QZero, log |-> QZero]

Number(r, l) == [exc |-> "", kind |-> "number", rat |-> r, log |-> l]

Divergent == [exc |-> "", kind |-> "divergent", rat |-> QZero, log |-> QZero]

Negated(v) ==
    IF v.kind = "number" THEN Number(QNeg(v.rat), QNeg(v.log)) ELSE v

\* lambda x: np.pi * (func(x)**2) at one float, in units of pi; None ** 2
\* is a TypeError
Squared(r) ==
    IF r.exc # "" THEN r
    ELSE IF IsNone(r.val) THEN [exc |-> "TypeError", val |-> None]
    ELSE [exc |-> "", val |-> Some(QMul(Val(r.val), Val(r.val)))]

integrand(func, v) == Squared(Call(func, v))

\* The lambda with the square left out: pi * func(x)
integrand_expr_unsquared(e) == e

\* The same lambda as an expression in x, in units of pi
integrand_expr(e) == Mul(e, e)

\* The integral of c * x^k over [lo, hi] for k # -1
RECURSIVE SumAntiderivative(_, _, _)
SumAntiderivative(g, lo, hi) ==
    IF g = {} THEN QZero
    ELSE LET t == CHOOSE t \in g : TRUE
             k == t.ex + 1
             part == IF k = 0 THEN QZero
                     ELSE QMul(QMul(t.c, QInv(Q(k))),
                               QSub(QPow(Q(hi), k), QPow(Q(lo), k)))
         IN  QAdd(part, SumAntiderivative(g \ {t}, lo, hi))

IsPow2(n) == \E k \in 0..30 : n = 2 ^ k

\* Bisection halves the interval with the largest error, the one around the
\* pole: its midpoint becomes 0.0 when 0 is a dyadic point of [lo, hi].
BisectionHitsZero(lo, hi) ==
    lo < 0 /\ 0 < hi /\ IsPow2((hi - lo) \div Gcd(-lo, hi - lo))

\* The rule's result where the integrand g has no pole in [lo, hi]: exact
Exact(g, lo, hi) == Number(SumAntiderivative(g, lo, hi), Coef(g, -1, 0))

\* QUADPACK's adaptive 21-point Gauss-Kronrod rule on lo <= hi.  The first
\* point evaluated is the centre.  On an interval of length 0 the rule's sum
\* is multiplied by the half-length 0.
Adaptive(first, e, lo, hi) ==
    IF first.exc # "" THEN Raised(first.exc)
    ELSE IF lo = hi THEN Number(QZero, QZero)
    ELSE IF has_pole(e) /\ lo <= 0 /\ 0 <= hi
         THEN IF BisectionHitsZero(lo, hi) THEN Raised("ZeroDivisionError")
              ELSE Divergent
         ELSE Exact(integrand_expr(e), lo, hi)

qagse(func, lo, hi) ==
    Adaptive(integrand(func, QNorm(lo + hi, 2)),
             IF IsNone(func.body) THEN {} ELSE Val(func.body), lo, hi)

Flipped(flip, retval) == IF flip THEN Negated(retval) ELSE retval

Min(m, n) == IF m < n THEN m ELSE n

Max(m, n) == IF m < n THEN n ELSE m

\* scipy.integrate.quad(f, a, b): the bounds are compared first (None does
\* not compare), put in order, and the result's sign flipped when b < a.
quad(func, a, b) ==
    IF IsNone(a) \/ IsNone(b) THEN Raised("TypeError")
    ELSE Flipped(Val(b) < Val(a),
                 qagse(func, Min(Val(a), Val(b)), Max(Val(a), Val(b))))

\* A volume_disk_method whose integral over reversed bounds is empty
EmptyWhenReversed(reversed, v) ==
    IF reversed /\ v.kind = "number" THEN Number(QZero, QZero) ELSE v

volume_disk_method_empty_when_reversed(func, a, b) ==
    EmptyWhenReversed(~IsNone(a) /\ ~IsNone(b) /\ Val(b) < Val(a), quad(func, a, b))

volume_disk_method(func, a, b) == quad(func, a, b)

\* ------------------------------------------------------- get_plot_data ---

\* np.linspace(a, b, NumSamples), each point in units of 1/(NumSamples - 1)
linspace(a, b) ==
    [i \in 1..NumSamples |-> a * (NumSamples - 1) + (i - 1) * (b - a)]

\* The shape of func(X) for an array X of n floats: numpy broadcasts over
\* the array where the body uses x; a body without x returns its number.
ShapeOfCall(func, n) ==
    IF "x" \in free_symbols(Val(func.body)) THEN <<n>> ELSE << >>

\* The shape of np.outer(u, w) for w of length n: u is flattened first
ShapeOfOuter(u, n) == <<IF u = << >> THEN 1 ELSE u[1], n>>

get_plot_data(func, a, b) ==
    [x_vals    |-> linspace(Val(a), Val(b)),
     y_vals    |-> ShapeOfCall(func, NumSamples),
     x_surface |-> <<NumSamples, NumSamples>>,
     Y         |-> ShapeOfOuter(ShapeOfCall(func, NumSamples), NumSamples),
     Z         |-> ShapeOfOuter(ShapeOfCall(func, NumSamples), NumSamples)]

\* -------------------------------------------------------- update_output --

Figure(title, traces, frames) ==
    [title |-> title, traces |-> traces, frames |-> frames]

EmptyFigure == Figure("", 0, 0)

\* f"The volume of the solid of revolution is: {volume:.4f}"; shown is the
\* number that the text renders to four decimals.
Message(volume) ==
    [text |-> "The volume of the solid of revolution is: ", shown |-> Some(volume)]

EmptyMessage == [text |-> "", shown |-> None]

\* What one invocation did: the exception that left it ("" on a return),
\* the calls it made in order, the volume and the samples it computed
\* (None when it did not get that far) and the four values returned.
Returned(calls, volume, samples, out) ==
    [raised |-> "", calls |-> calls, volume |-> volume, samples |-> samples,
     out |-> Some(out)]

Threw(exc, calls, volume, samples) ==
    [raised |-> exc, calls |-> calls, volume |-> volume, samples |-> samples,
     out |-> None]

\* go.Scatter(x=x_vals, y=y_vals, ...) takes an array for y and raises
\* ValueError for a bare number.
ScatterRejects(samples) == samples.y_vals = << >>

AllCalls ==
    <<"sympify", "lambdify", "volume_disk_method", "get_plot_data", "Scatter">>

\* Lines 63-171: the three figures, their frames and the message
Figures(volume, samples) ==
    IF ScatterRejects(samples)
    THEN Threw("ValueError", AllCalls, Some(volume), Some(samples))
    ELSE Returned(AllCalls, Some(volume), Some(samples),
                  <<Message(volume),
                    Figure("Function f(x)", 2, 0),
                    Figure("Rotating Solid of Revolution", 1, num_frames),
                    Figure("Area Being Rotated Around X-axis", 3, num_frames)>>)

\* Line 61, once volume_disk_method has returned
AfterVolume(func_numeric, volume, xa, xb) ==
    IF volume.exc # ""
    THEN Threw(volume.exc, SubSeq(AllCalls, 1, 3), None, None)
    ELSE Figures(volume, get_plot_data(func_numeric, xa, xb))

\* Line 60
AfterLambdify(func_numeric, xa, xb) ==
    AfterVolume(func_numeric, volume_disk_method(func_numeric, xa, xb), xa, xb)

\* Line 59, once sympify has returned
AfterSympify(func, xa, xb) ==
    IF func.exc # ""
    THEN Threw(func.exc, SubSeq(AllCalls, 1, 1), None, None)
    ELSE AfterLambdify(lambdify(func.expr), xa, xb)

\* An update_output without the test of n_clicks
update_output_unguarded(n, s, xa, xb) == AfterSympify(sympify(s), xa, xb)

update_output(n, s, xa, xb) ==
    IF ~(n > 0)
    THEN Returned(<< >>, None, None,
                  <<EmptyMessage, EmptyFigure, EmptyFigure, EmptyFigure>>)
    ELSE AfterSympify(sympify(s), xa, xb)

\* ------------------------------------------------------------ the app ----

VARIABLES
    n_clicks,        \* calculate-button.n_clicks
    func_str,        \* function-input.value
    a,               \* a-input.value
    b,               \* b-input.value
    volume_output,   \* volume-output.children
    function_graph,  \* function-graph.figure
    solid_graph,     \* solid-graph.figure
    solid_2d_graph,  \* solid-2d-graph.figure
    filled,          \* the user has filled in the form
    args,            \* the arguments of the latest call of update_output
    last             \* what that call did

vars == <<n_clicks, func_str, a, b, volume_output, function_graph,
          solid_graph, solid_2d_graph, filled, args, last>>

RECURSIVE Texts(_)
Longer(shorter, n) ==
    shorter \cup {Append(t, l) : t \in {u \in shorter : Len(u) = n - 1},
                                 l \in Lexemes}

Texts(n) == IF n = 0 THEN {<< >>} ELSE Longer(Texts(n - 1), n)

\* The function field holds None when it is left untouched
FunctionValues == {None} \cup {Some(t) : t \in Texts(MaxLen)}

\* A number field holds None when it is left or made empty
NumberValues == {None} \cup {Some(k) : k \in -MaxAbs..MaxAbs}

NotCalled == Threw("", << >>, None, None)

\* app.layout: n_clicks = 0, no value in the three input fields and no
\* output yet.
Init ==
    /\ n_clicks = 0
    /\ func_str = None
    /\ a = None
    /\ b = None
    /\ volume_output = None
    /\ function_graph = None
    /\ solid_graph = None
    /\ solid_2d_graph = None
    /\ filled = FALSE
    /\ args = None
    /\ last = NotCalled

\* The user types a function and the bounds (or leaves a bound empty).  No
\* callback listens to the three fields: they are State.  A session fills
\* the form once.
FillForm ==
    /\ ~filled
    /\ filled' = TRUE
    /\ func_str' \in FunctionValues
    /\ a' \in NumberValues
    /\ b' \in NumberValues
    /\ UNCHANGED <<n_clicks, volume_output, function_graph, solid_graph,
                   solid_2d_graph, args, last>>

\* Dash runs the callback with n_clicks and the State values, and sets the
\* four outputs when it returns; when it raises, the request fails and the
\* outputs keep what they show.
Invoke(n) ==
    /\ args' = Some(<<n, func_str, a, b>>)
    /\ last' = update_output(n, func_str, a, b)
    /\ IF last'.raised = ""
       THEN /\ volume_output' = Some(Val(last'.out)[1])
            /\ function_graph' = Some(Val(last'.out)[2])
            /\ solid_graph' = Some(Val(last'.out)[3])
            /\ solid_2d_graph' = Some(Val(last'.out)[4])
       ELSE UNCHANGED <<volume_output, function_graph, solid_graph,
                        solid_2d_graph>>

\* The page loads: the callback is called once with n_clicks = 0.
InitialCall ==
    /\ IsNone(args)
    /\ Invoke(n_clicks)
    /\ UNCHANGED <<n_clicks, func_str, a, b, filled>>

\* The user clicks Calculate.
ClickCalculate ==
    /\ ~IsNone(args)
    /\ n_clicks < MaxClicks
    /\ n_clicks' = n_clicks + 1
    /\ Invoke(n_clicks + 1)
    /\ UNCHANGED <<func_str, a, b, filled>>

Next == FillForm \/ InitialCall \/ ClickCalculate

Spec == Init /\ [][Next]_vars

\* ------------------------------------------------------------- claims ----

\* The arguments of the latest call
Called == ~IsNone(args)

ArgClicks == Val(args)[1]

ArgText == Val(args)[2]

ArgA == Val(args)[3]

ArgB == Val(args)[4]

\* The latest call was for a click on Calculate (n_clicks > 0).
Clicked == Called /\ ArgClicks > 0

Numeric(o) == ~IsNone(o)

\* The text passed parses; Expr is the expression it gives.
Parses == ~IsNone(ArgText) /\ sympify(ArgText).exc = ""

Expr == Val(sympify(ArgText).expr)

SingleVariable == Parses /\ free_symbols(Expr) \subseteq {"x"}

VolumeCalled == \E i \in 1..Len(last.calls) : last.calls[i] = "volume_disk_method"

\* What volume_disk_method gave the latest call
VolumeResult ==
    IF ~IsNone(last.volume) THEN Val(last.volume) ELSE Raised(last.raised)

\* volume_disk_method on the same function with the bounds swapped
SwappedResult == volume_disk_method(lambdify(sympify(ArgText).expr), ArgB, ArgA)

IsZero(v) == v.kind = "number" /\ v.rat = QZero /\ v.log = QZero

\* pi * f^2 >= 0, so a value with a logarithmic part, which is not 0, is
\* negative exactly when quad flipped it.
NonNegative(v) ==
    /\ v.kind = "number"
    /\ IF v.log = QZero THEN ~QLess(v.rat, QZero) ELSE ~(Val(ArgB) < Val(ArgA))

SameMagnitude(v, w) == v.exc = "" /\ w.exc = "" /\ (v = w \/ v = Negated(w))

\* C1: for every valid single-variable expression and bounds a = b,
\* volume_disk_method returns exactly 0 and update_output reports a volume
\* of 0.
C1_EqualBoundsGiveZero ==
    (Clicked /\ SingleVariable /\ Numeric(ArgA) /\ ArgA = ArgB)
        => /\ ~IsNone(last.volume)
           /\ IsZero(Val(last.volume))
           /\ last.raised = ""
           /\ Val(last.out)[1] = Message(Number(QZero, QZero))

\* C2: every volume that volume_disk_method returns to update_output, for
\* bounds in either order, is a real number >= 0.
C2_VolumeNonNegative ==
    (Clicked /\ ~IsNone(last.volume)) => NonNegative(Val(last.volume))

\* C3: with a > b, volume_disk_method never raises a BoundsError; it always
\* gives the negation of the call with the bounds swapped: whenever the
\* swapped call returns a value, the call returns a value of the same
\* magnitude, and whenever the swapped call raises, the call raises the same
\* exception.
C3_ReversedBoundsSameMagnitude ==
    (/\ Clicked /\ VolumeCalled
     /\ Numeric(ArgA) /\ Numeric(ArgB) /\ Val(ArgA) > Val(ArgB))
        => /\ last.raised # "BoundsError"
           /\ VolumeResult = Negated(SwappedResult)
           /\ (SwappedResult.exc = "" => SameMagnitude(VolumeResult, SwappedResult))

C3_Witness ==
    /\ Clicked /\ ArgText = Some(<<"x">>) /\ ArgA = Some(1) /\ ArgB = Some(0)
    /\ last.volume = Some(Number(<<-1, 3>>, QZero))
    /\ SwappedResult = Number(<<1, 3>>, QZero)

\* C4: for a constant function f(x) = c and bounds a <= b the volume is
\* pi * c^2 * (b - a).
C4_ConstantVolume ==
    (/\ Clicked /\ Parses /\ free_symbols(Expr) = {}
     /\ Numeric(ArgA) /\ Numeric(ArgB) /\ Val(ArgA) <= Val(ArgB))
        => last.volume =
               Some(Number(QMul(QMul(Coef(Expr, 0, 0), Coef(Expr, 0, 0)),
                                Q(Val(ArgB) - Val(ArgA))),
                           QZero))

C4_Witness ==
    /\ Clicked /\ ArgText = Some(<<"-", "2">>)
    /\ ArgA = Some(-1) /\ ArgB = Some(2)
    /\ last.volume = Some(Number(Q(12), QZero))

\* C5: a calculation with a malformed expression text never ends in an
\* exception leaving update_output.
C5_MalformedTextIsCaught ==
    (Clicked /\ ~IsNone(ArgText) /\ ~Parses) => last.raised = ""

\* C6: an expression with more than one free symbol is refused at the parse
\* step: no callable is made and neither integration nor sampling is run.
C6_TwoSymbolsRefusedAtParse ==
    (Clicked /\ Parses /\ Cardinality(free_symbols(Expr)) > 1)
        => /\ last.calls = <<"sympify">>
           /\ last.raised \in {"", "ParseError"}

\* The integrand has a pole in [a, b]: the integral does not converge.
NonConvergent ==
    /\ SingleVariable /\ has_pole(Expr)
    /\ Numeric(ArgA) /\ Numeric(ArgB)
    /\ Min(Val(ArgA), Val(ArgB)) <= 0 /\ 0 <= Max(Val(ArgA), Val(ArgB))

\* C7: a calculation whose integral does not converge ends in an
\* IntegrationError; no meaningless value is returned or displayed.
C7_NonConvergentIsAnIntegrationError ==
    (Clicked /\ NonConvergent)
        => /\ last.raised \in {"", "IntegrationError"}
           /\ IsNone(last.volume)
           /\ (~IsNone(last.out) => IsNone(Val(last.out)[1].shown))

\* C8: a calculation with a bound missing never ends in an exception leaving
\* update_output.
C8_MissingBoundIsCaught ==
    (Clicked /\ (IsNone(ArgA) \/ IsNone(ArgB))) => last.raised = ""

Ascending(xs) == \A i \in 1..(Len(xs) - 1) : xs[i] <= xs[i + 1]

\* C9: the samples are always 100 pairs (x, f(x)) with x ascending from a to
\* b, and Y and Z have the 100 x 100 shape of x_surface.
C9_SampleShapes ==
    (Clicked /\ ~IsNone(last.samples))
        => /\ Len(Val(last.samples).x_vals) = NumSamples
           /\ Val(last.samples).y_vals = <<NumSamples>>
           /\ Ascending(Val(last.samples).x_vals)
           /\ Val(last.samples).x_vals[1] = Val(ArgA) * (NumSamples - 1)
           /\ Val(last.samples).x_vals[NumSamples] = Val(ArgB) * (NumSamples - 1)
           /\ Val(last.samples).x_surface = <<NumSamples, NumSamples>>
           /\ Val(last.samples).Y = Val(last.samples).x_surface
           /\ Val(last.samples).Z = Val(last.samples).x_surface

IsPrefix(p, q) == Len(p) <= Len(q) /\ SubSeq(q, 1, Len(p)) = p

\* C10: with n_clicks = 0 update_output returns the empty message and three
\* empty figures without parsing or integrating, whatever the field values;
\* with n_clicks > 0 it parses first, then computes the volume, then the
\* samples.
C10_OnlyOnClick ==
    Called =>
        /\ ArgClicks = 0 =>
              /\ last.calls = << >>
              /\ last.raised = ""
              /\ IsNone(last.volume) /\ IsNone(last.samples)
              /\ last.out = Some(<<EmptyMessage, EmptyFigure, EmptyFigure,
                                   EmptyFigure>>)
        /\ ArgClicks > 0 =>
              /\ last.calls # << >>
              /\ IsPrefix(last.calls,
                          <<"sympify", "lambdify", "volume_disk_method",
                            "get_plot_data", "Scatter">>)
              /\ (~IsNone(last.volume) => Parses)
              /\ (~IsNone(last.samples) => ~IsNone(last.volume))

C10_Witness ==
    /\ Called /\ ArgClicks = 0
    /\ ArgText = Some(<<"x">>) /\ ArgA = Some(0) /\ ArgB = Some(1)
    /\ last.calls = << >>
    /\ volume_output = Some(EmptyMessage)

====
